---- MODULE Spec2Model ----
(***************************************************************************)
(* Model of the rabin crate of bheatwole/dedup: the 64-bit Rabin rolling   *)
(* hash over a 16-byte window (rolling_hash.rs) and the two-divisor        *)
(* content-defined Chunker built on it (chunker.rs).                       *)
(*                                                                         *)
(* A u64 is modelled as the set of its set bit positions, a subset of      *)
(* 0..63: XOR is symmetric difference, OR is union, a left shift moves     *)
(* every position up and drops what leaves bit 63.  A u8 and a usize are   *)
(* naturals.  A slice is a sequence of bytes.                              *)
(***************************************************************************)
EXTENDS Integers, Sequences, FiniteSets, TLC

\* ------------------------------------------------------------------------
\* u64 / u8 arithmetic
\* ------------------------------------------------------------------------

\* a ^ b on u64
XOR(a, b) == {i \in 0..63 : (i \in a) # (i \in b)}

\* bit i of the natural v
Bit(v, i) == (v \div (2 ^ i)) % 2

\* `v as u64` for a value below 2^16 (a u8, or one of the literals of the code)
BitsOf(v) == {i \in 0..15 : Bit(v, i) = 1}

\* `s as usize` for a u64 whose set bits lie within 0..7
ValueOf(s) ==
    LET w(i) == IF i \in s THEN 2 ^ i ELSE 0
    IN  w(0) + w(1) + w(2) + w(3) + w(4) + w(5) + w(6) + w(7)

\* number << n on u64
ShiftLeft(number, n) == {i + n : i \in {j \in number : j + n <= 63}}

\* number >> n on u64
ShiftRight(number, n) == {i - n : i \in {j \in number : j >= n}}

\* a & b for two usize values below 2^8
BitAnd(a, b) == ValueOf(BitsOf(a) \cap BitsOf(b))

\* ------------------------------------------------------------------------
\* rolling_hash.rs
\* ------------------------------------------------------------------------

DEFAULT_IRREDUCIBLE_POLYNOMIAL_64 == {0, 1, 3, 4}

WINDOW_SIZE == 16
TWICE_WINDOW_SIZE == 2 * WINDOW_SIZE
WINDOW_MASK == 15
BITS_PER_BYTE == 8

\* shift_step, were it to shift without reducing by the polynomial
shift_step_no_mod(number) == ShiftLeft(number, 1)

\* one iteration of the loop of shift_left_n_bits_with_mod_64
shift_step(number) ==
    LET needs_mod == 63 \in number
        shifted == ShiftLeft(number, 1)
    IN  IF needs_mod THEN XOR(shifted, DEFAULT_IRREDUCIBLE_POLYNOMIAL_64)
        ELSE shifted

\* the loop `for _ in 0..n` of shift_left_n_bits_with_mod_64: k iterations from
\* number are the first k \div 2 iterations followed by the remaining ones
shift_loop[number \in SUBSET (0..63), k \in 0..255] ==
    IF k = 0 THEN number
    ELSE IF k = 1 THEN shift_step(number)
    ELSE shift_loop[shift_loop[number, k \div 2], k - (k \div 2)]

shift_left_n_bits_with_mod_64(number, n) == shift_loop[number, n]

\* BITS_PER_BYTE * WINDOW_SIZE as u8: the product is taken in u8
pop_shift == (BITS_PER_BYTE * (WINDOW_SIZE % 256)) % 256

\* the push table built by RollingHash::new
push_entry(i) == shift_left_n_bits_with_mod_64(ShiftLeft(BitsOf(i), 56), BITS_PER_BYTE)

\* pop_entry, were the shift one byte short of the window
pop_entry_short(i) ==
    shift_left_n_bits_with_mod_64(BitsOf(i), BITS_PER_BYTE * (WINDOW_SIZE - 1))

\* the pop table built by RollingHash::new
pop_entry(i) == shift_left_n_bits_with_mod_64(BitsOf(i), pop_shift)

push == [i \in 0..255 |-> push_entry(i)]

pop == [i \in 0..255 |-> pop_entry(i)]

\* RollingHash::new
new == [hash |-> {}, queue |-> [i \in 0..(WINDOW_SIZE - 1) |-> 0], next |-> 0]

\* RollingHash::hash
hash(self) == self.hash

\* reset, were it to do nothing
reset_nothing(self) == self

\* reset, were it to clear the window and keep the hash
reset_keep_hash(self) == [self EXCEPT !.queue = [i \in 0..(WINDOW_SIZE - 1) |-> 0]]

\* reset, were it to clear the hash and keep the window
reset_keep_queue(self) == [self EXCEPT !.hash = {}]

\* RollingHash::reset
reset(self) == [self EXCEPT !.hash = {}, !.queue = [i \in 0..(WINDOW_SIZE - 1) |-> 0]]

\* hash_byte, were it to leave the byte out of the queue
hash_byte_no_store(self, b) ==
    LET high_byte == ValueOf(ShiftRight(self.hash, 56))
        hash1 == XOR(ShiftLeft(self.hash, 8) \cup BitsOf(b), push[high_byte])
        old_byte == self.queue[self.next]
        hash2 == XOR(hash1, pop[old_byte])
    IN  [hash |-> hash2,
         queue |-> self.queue,
         next |-> BitAnd(self.next + 1, WINDOW_MASK)]

\* RollingHash::hash_byte
hash_byte(self, b) ==
    LET high_byte == ValueOf(ShiftRight(self.hash, 56))
        hash1 == XOR(ShiftLeft(self.hash, 8) \cup BitsOf(b), push[high_byte])
        old_byte == self.queue[self.next]
        hash2 == XOR(hash1, pop[old_byte])
    IN  [hash |-> hash2,
         queue |-> [self.queue EXCEPT ![self.next] = b],
         next |-> BitAnd(self.next + 1, WINDOW_MASK)]

\* the values of a RollingHash
RollingHash == [hash : SUBSET (0..63), queue : [0..(WINDOW_SIZE - 1) -> 0..255], next : 0..WINDOW_MASK]

\* the loop `for &b in bytes { self.hash_byte(b) }`: the iterations over bytes
\* are those over its first half followed by those over the rest
hash_loop[self \in RollingHash, bytes \in Seq(0..255)] ==
    IF bytes = <<>> THEN self
    ELSE IF Len(bytes) = 1 THEN hash_byte(self, bytes[1])
    ELSE hash_loop[hash_loop[self, SubSeq(bytes, 1, Len(bytes) \div 2)],
                   SubSeq(bytes, Len(bytes) \div 2 + 1, Len(bytes))]

hash_each(self, bytes) == hash_loop[self, bytes]

\* hash_bytes, were its shortcut to keep one byte too few
hash_bytes_short(self, bytes) ==
    IF Len(bytes) > TWICE_WINDOW_SIZE
    THEN hash_each(reset(self), SubSeq(bytes, Len(bytes) - WINDOW_SIZE + 2, Len(bytes)))
    ELSE hash_each(self, bytes)

\* RollingHash::hash_bytes
hash_bytes(self, bytes) ==
    IF Len(bytes) > TWICE_WINDOW_SIZE
    THEN hash_each(reset(self), SubSeq(bytes, Len(bytes) - WINDOW_SIZE + 1, Len(bytes)))
    ELSE hash_each(self, bytes)


\* ------------------------------------------------------------------------
\* chunker.rs
\* ------------------------------------------------------------------------

PRIMARY_BITMASK == 2047
SECONDARY_BITMASK == 1023

\* Option<&[u8]>
None == [some |-> FALSE, chunk |-> <<>>]
Some(c) == [some |-> TRUE, chunk |-> c]

\* &bytes[from..to], 0-based and half-open as in the code
Slice(bytes, from, to) == SubSeq(bytes, from + 1, to)

\* matches, were it to test for the mask's bits being clear
matches_clear(h, mask) == (h \cap BitsOf(mask)) = {}

\* hash & mask == mask
matches(h, mask) == (h \cap BitsOf(mask)) = BitsOf(mask)

\* Chunker::new
Chunker_new(buf, lo, hi) == [hasher |-> new, mem |-> buf, min |-> lo, max |-> hi]

\* pop_front_chunk, were it to drop one byte more than it returns
pop_front_chunk_skip(self, len) ==
    IF len > Len(self.mem) THEN [ret |-> None, self |-> self, panic |-> TRUE]
    ELSE [ret |-> Some(Slice(self.mem, 0, len)),
          self |-> [self EXCEPT !.mem = Slice(self.mem, len + 1, Len(self.mem))],
          panic |-> FALSE]

\* pop_front_chunk, were it to leave mem where it is
pop_front_chunk_stay(self, len) ==
    IF len > Len(self.mem) THEN [ret |-> None, self |-> self, panic |-> TRUE]
    ELSE [ret |-> Some(Slice(self.mem, 0, len)), self |-> self, panic |-> FALSE]

\* Chunker::pop_front_chunk; slicing past the end of mem panics
pop_front_chunk(self, len) ==
    IF len > Len(self.mem) THEN [ret |-> None, self |-> self, panic |-> TRUE]
    ELSE [ret |-> Some(Slice(self.mem, 0, len)),
          self |-> [self EXCEPT !.mem = Slice(self.mem, len, Len(self.mem))],
          panic |-> FALSE]

\* scan, were a primary boundary to cut after the byte that matched
RECURSIVE scan_cut_after(_, _, _, _, _)
scan_cut_after(hasher, mem, i, max, secondary) ==
    IF i >= max \/ i >= Len(mem)
    THEN [primary |-> FALSE, at |-> 0, hasher |-> hasher, secondary |-> secondary]
    ELSE LET fed == hash_byte(hasher, mem[i + 1])
         IN  IF matches(hash(fed), PRIMARY_BITMASK)
             THEN [primary |-> TRUE, at |-> i + 1, hasher |-> fed, secondary |-> secondary]
             ELSE scan_cut_after(fed, mem, i + 1, max,
                                 IF matches(hash(fed), SECONDARY_BITMASK) THEN i ELSE secondary)

\* scan, were it to go on past max to the end of mem
RECURSIVE scan_unbounded(_, _, _, _, _)
scan_unbounded(hasher, mem, i, max, secondary) ==
    IF i >= Len(mem)
    THEN [primary |-> FALSE, at |-> 0, hasher |-> hasher, secondary |-> secondary]
    ELSE LET fed == hash_byte(hasher, mem[i + 1])
         IN  IF matches(hash(fed), PRIMARY_BITMASK)
             THEN [primary |-> TRUE, at |-> i, hasher |-> fed, secondary |-> secondary]
             ELSE scan_unbounded(fed, mem, i + 1, max,
                                 IF matches(hash(fed), SECONDARY_BITMASK) THEN i ELSE secondary)

\* scan, were a primary boundary to give way to a secondary one recorded
\* before it
RECURSIVE scan_secondary_wins(_, _, _, _, _)
scan_secondary_wins(hasher, mem, i, max, secondary) ==
    IF i >= max \/ i >= Len(mem)
    THEN [primary |-> FALSE, at |-> 0, hasher |-> hasher, secondary |-> secondary]
    ELSE LET fed == hash_byte(hasher, mem[i + 1])
         IN  IF matches(hash(fed), PRIMARY_BITMASK)
             THEN [primary |-> TRUE, at |-> IF 0 = secondary THEN i ELSE secondary,
                   hasher |-> fed, secondary |-> secondary]
             ELSE scan_secondary_wins(fed, mem, i + 1, max,
                                      IF matches(hash(fed), SECONDARY_BITMASK) THEN i ELSE secondary)

\* scan, were it to keep the first secondary boundary instead of the last
RECURSIVE scan_first_secondary(_, _, _, _, _)
scan_first_secondary(hasher, mem, i, max, secondary) ==
    IF i >= max \/ i >= Len(mem)
    THEN [primary |-> FALSE, at |-> 0, hasher |-> hasher, secondary |-> secondary]
    ELSE LET fed == hash_byte(hasher, mem[i + 1])
         IN  IF matches(hash(fed), PRIMARY_BITMASK)
             THEN [primary |-> TRUE, at |-> i, hasher |-> fed, secondary |-> secondary]
             ELSE scan_first_secondary(fed, mem, i + 1, max,
                                       IF matches(hash(fed), SECONDARY_BITMASK) /\ 0 = secondary
                                       THEN i ELSE secondary)

\* the loop `for i in self.min..self.max` of Chunker::next, from index i on
RECURSIVE scan(_, _, _, _, _)
scan(hasher, mem, i, max, secondary) ==
    IF i >= max \/ i >= Len(mem)
    THEN [primary |-> FALSE, at |-> 0, hasher |-> hasher, secondary |-> secondary]
    ELSE LET fed == hash_byte(hasher, mem[i + 1])
         IN  IF matches(hash(fed), PRIMARY_BITMASK)
             THEN [primary |-> TRUE, at |-> i, hasher |-> fed, secondary |-> secondary]
             ELSE scan(fed, mem, i + 1, max,
                       IF matches(hash(fed), SECONDARY_BITMASK) THEN i ELSE secondary)

\* fallback_cut, were it to leave out the cap by the remaining length
fallback_cut_uncapped(secondary, max, len) == IF 0 = secondary THEN max ELSE secondary

\* fallback_cut, were it to forget that secondary = 0 means "none found"
fallback_cut_no_sentinel(secondary, max, len) ==
    IF secondary > len THEN len ELSE secondary

\* the cut when the loop found no primary boundary
fallback_cut(secondary, max, len) ==
    LET cut == IF 0 = secondary THEN max ELSE secondary
    IN  IF cut > len THEN len ELSE cut

\* Chunker::next (Iterator::next)
Chunker_next(self) ==
    LET len == Len(self.mem)
    IN  IF 0 = len THEN [ret |-> None, self |-> self, panic |-> FALSE]
        ELSE IF len < self.min
        THEN [ret |-> Some(self.mem), self |-> [self EXCEPT !.mem = Slice(self.mem, 0, 0)],
              panic |-> FALSE]
        ELSE LET seeded == hash_bytes(reset(self.hasher), Slice(self.mem, 0, self.min))
                 found == scan(seeded, self.mem, self.min, self.max, 0)
                 after == [self EXCEPT !.hasher = found.hasher]
             IN  IF found.primary THEN pop_front_chunk(after, found.at)
                 ELSE pop_front_chunk(after, fallback_cut(found.secondary, self.max, len))

\* ------------------------------------------------------------------------
\* inputs
\* ------------------------------------------------------------------------

\* bytes the inputs are made of: 255 after 255 ends in eleven 1 bits (a primary
\* boundary), 255 after 3 in ten (a secondary one), 0 is the neutral byte
Alphabet == {0, 3, 255}

MaxLen == 3
MaxMin == 2
MaxMax == 7
PadLen == 6
ExtraCalls == 1

RECURSIVE SeqsOfLen(_)
SeqsOfLen(k) ==
    IF k = 0 THEN {<<>>}
    ELSE {Append(t, c) : t \in SeqsOfLen(k - 1), c \in Alphabet}

SeqsUpTo(k) == UNION {SeqsOfLen(j) : j \in 0..k}

Rep(c, k) == [j \in 1..k |-> c]

\* the buffers of the chunker runs: every sequence over Alphabet up to MaxLen
\* bytes, alone or after a run of PadLen equal bytes
Buffers ==
    SeqsUpTo(MaxLen) \cup {Rep(c, PadLen) \o t : c \in Alphabet, t \in SeqsUpTo(MaxLen)}
                     \cup {<<3, 255, 3, 255>>}

\* ------------------------------------------------------------------------
\* state
\* ------------------------------------------------------------------------

VARIABLES
    input,      \* the caller's buffer
    chunker,    \* the Chunker over it
    emitted,    \* the chunks returned so far, in order
    ret,        \* what the last call of next() returned
    calls,      \* the number of calls of next() so far
    rolling,    \* a RollingHash driven by its client
    twin,       \* a RollingHash constructed anew wherever rolling was reset
    bytewise,   \* a RollingHash given every byte through hash_byte
    given,      \* the bytes the client passed in since new() or its last reset()
    sent,       \* the bytes passed to hash_byte since new() or the last reset
    lastop,     \* the last operation of the client on rolling
    ops,        \* the number of operations on rolling so far
    input2,     \* an edited copy of the caller's buffer
    chunker2,   \* the Chunker over the edited copy
    emitted2,   \* the chunks chunker2 returned so far, in order
    autogen,    \* the lines build.rs has written to its output file so far
    arg,        \* the string given to parse_memory_usage
    usage       \* what parse_memory_usage did with it

cvars == <<input, chunker, emitted, ret, calls>>
hvars == <<rolling, twin, bytewise, given, sent, lastop, ops>>
evars == <<input2, chunker2, emitted2>>
bvars == <<autogen>>
pvars == <<arg, usage>>
vars == <<cvars, hvars, evars, bvars, pvars>>

\* no RollingHash client
HashIdle ==
    /\ rolling = new /\ twin = new /\ bytewise = new
    /\ given = <<>> /\ sent = <<>> /\ lastop = "new" /\ ops = 0

\* no edited copy
EditIdle ==
    /\ input2 = <<>> /\ chunker2 = Chunker_new(<<>>, 0, 0) /\ emitted2 = <<>>

\* build.rs has not run
BuildIdle == autogen = <<>>

\* parse_memory_usage has not been called
ParseIdle == arg = <<>> /\ usage = [called |-> FALSE]

\* no Chunker client
ChunkerIdle ==
    /\ input = <<>> /\ chunker = Chunker_new(<<>>, 0, 0)
    /\ emitted = <<>> /\ ret = None /\ calls = 0

Init ==
    /\ \E buf \in Buffers, lo \in 0..MaxMin, hi \in 0..MaxMax :
          /\ input = buf
          /\ chunker = Chunker_new(buf, lo, hi)
    /\ emitted = <<>>
    /\ ret = None
    /\ calls = 0
    /\ HashIdle
    /\ EditIdle
    /\ BuildIdle
    /\ ParseIdle

\* what a call of next() by the caller does
Call ==
    /\ LET r == Chunker_next(chunker)
       IN  /\ chunker' = r.self
           /\ ret' = r.ret
           /\ emitted' = IF r.ret.some THEN Append(emitted, r.ret.chunk) ELSE emitted
    /\ calls' = calls + 1
    /\ UNCHANGED <<input, hvars, evars, bvars, pvars>>

\* one call of next() by the caller, who goes on calling after None
CallNext ==
    /\ calls < Len(input) + ExtraCalls
    /\ Call

Next == CallNext

Spec == Init /\ [][Next]_vars

\* ------------------------------------------------------------------------
\* a client of RollingHash
\* ------------------------------------------------------------------------

MaxOps == 3

\* a fixed run of bytes of all shapes
Sample == [j \in 1..(TWICE_WINDOW_SIZE + 3) |-> (j * 89 + 41) % 256]

\* buffer lengths on both sides of the window size and of the shortcut's threshold
HashLens == {1, WINDOW_SIZE - 1, WINDOW_SIZE + 1, TWICE_WINDOW_SIZE + 1}

\* the buffers passed to hash_bytes
HashBuffers == {Slice(Sample, o, o + l) : o \in {0, 2}, l \in HashLens}

\* the last WINDOW_SIZE bytes of bytes, or all of them when there are fewer
LastWindow(bytes) ==
    IF Len(bytes) <= WINDOW_SIZE THEN bytes
    ELSE SubSeq(bytes, Len(bytes) - WINDOW_SIZE + 1, Len(bytes))

InitHash ==
    /\ ChunkerIdle
    /\ EditIdle
    /\ HashIdle
    /\ BuildIdle
    /\ ParseIdle

\* the client calls hash_byte(b)
HashByte ==
    /\ ops < MaxOps
    /\ \E b \in Alphabet :
          /\ rolling' = hash_byte(rolling, b)
          /\ twin' = hash_byte(twin, b)
          /\ bytewise' = hash_byte(bytewise, b)
          /\ given' = Append(given, b)
          /\ sent' = Append(sent, b)
    /\ lastop' = "hash_byte"
    /\ ops' = ops + 1
    /\ UNCHANGED <<cvars, evars, bvars, pvars>>

\* the client calls hash_bytes(bytes); bytewise gets the same bytes one by one
HashBytes ==
    /\ ops < MaxOps
    /\ \E bytes \in HashBuffers :
          /\ rolling' = hash_bytes(rolling, bytes)
          /\ twin' = hash_bytes(twin, bytes)
          /\ bytewise' = hash_each(bytewise, bytes)
          /\ given' = given \o bytes
          /\ sent' = IF Len(bytes) > TWICE_WINDOW_SIZE THEN LastWindow(bytes)
                     ELSE sent \o bytes
    /\ lastop' = "hash_bytes"
    /\ ops' = ops + 1
    /\ UNCHANGED <<cvars, evars, bvars, pvars>>

\* the client calls reset(); twin is replaced by a new RollingHash
Reset ==
    /\ ops < MaxOps
    /\ rolling' = reset(rolling)
    /\ twin' = new
    /\ bytewise' = reset(bytewise)
    /\ given' = <<>>
    /\ sent' = <<>>
    /\ lastop' = "reset"
    /\ ops' = ops + 1
    /\ UNCHANGED <<cvars, evars, bvars, pvars>>

NextHash == HashByte \/ HashBytes \/ Reset

SpecHash == InitHash /\ [][NextHash]_vars

\* ------------------------------------------------------------------------
\* a buffer and an edited copy of it, chunked with the same bounds
\* ------------------------------------------------------------------------

EditHead == 1
EditPad == 20
EditMin == 2
EditMax == 3

\* the ends the two buffers differ in
EditTails == {<<>>, <<0>>, <<255, 255>>, <<3, 255>>}

\* both buffers begin with the same bytes: any EditHead bytes or fewer, then
\* a run of EditPad equal bytes
InitEdit ==
    /\ \E t \in SeqsUpTo(EditHead), c \in Alphabet, lo \in 1..EditMin, hi \in 1..EditMax :
          /\ \E from \in EditTails :
                /\ input = t \o Rep(c, EditPad) \o from
                /\ chunker = Chunker_new(t \o Rep(c, EditPad) \o from, lo, hi)
          /\ \E to \in EditTails :
                /\ input2 = t \o Rep(c, EditPad) \o to
                /\ chunker2 = Chunker_new(t \o Rep(c, EditPad) \o to, lo, hi)
    /\ emitted = <<>>
    /\ emitted2 = <<>>
    /\ ret = None
    /\ calls = 0
    /\ HashIdle
    /\ BuildIdle
    /\ ParseIdle

\* one call of next() on the Chunker over the buffer, while bytes remain
CallNextOriginal ==
    /\ chunker.mem # <<>>
    /\ Call

\* one call of next() on the Chunker over the edited copy, once the first
\* Chunker is used up
CallNextEdited ==
    /\ chunker.mem = <<>>
    /\ chunker2.mem # <<>>
    /\ LET r == Chunker_next(chunker2)
       IN  /\ chunker2' = r.self
           /\ emitted2' = IF r.ret.some THEN Append(emitted2, r.ret.chunk) ELSE emitted2
    /\ UNCHANGED <<cvars, hvars, input2, bvars, pvars>>

NextEdit == CallNextOriginal \/ CallNextEdited

SpecEdit == InitEdit /\ [][NextEdit]_vars

\* ------------------------------------------------------------------------
\* properties of the Chunker
\* ------------------------------------------------------------------------

\* the contract of Chunker::new: 0 < min <= max
ValidBounds == 0 < chunker.min /\ chunker.min <= chunker.max

\* total length of the first k emitted chunks: the offset where chunk k+1 starts
RECURSIVE Offset(_)
Offset(k) == IF k = 0 THEN 0 ELSE Offset(k - 1) + Len(emitted[k])

\* C1: under 0 < min <= max, the chunks returned so far are consecutive
\* sub-ranges of the input starting at offset 0, and the remaining view is the
\* suffix of the input that starts where the last returned chunk ended.
C1_Partition ==
    ValidBounds =>
        /\ \A j \in 1..Len(emitted) : emitted[j] = Slice(input, Offset(j - 1), Offset(j))
        /\ Offset(Len(emitted)) <= Len(input)
        /\ chunker.mem = Slice(input, Offset(Len(emitted)), Len(input))

\* a run that cut the input into at least three chunks and used it up
C1_Witness ==
    ValidBounds /\ Len(emitted) >= 3 /\ chunker.mem = <<>> /\ Len(emitted[1]) >= 2

\* C2: under 0 < min <= max, every returned chunk has between 1 and max bytes,
\* a chunk shorter than min is the last one and leaves nothing behind, an
\* empty input yields no chunk, and an input of at most min bytes yields the
\* whole input as its only chunk.
C2_Sizes ==
    ValidBounds =>
        /\ \A j \in 1..Len(emitted) :
              /\ 1 <= Len(emitted[j]) /\ Len(emitted[j]) <= chunker.max
              /\ Len(emitted[j]) < chunker.min => (j = Len(emitted) /\ chunker.mem = <<>>)
        /\ input = <<>> => emitted = <<>>
        /\ (0 < Len(input) /\ Len(input) <= chunker.min /\ calls >= 1) => emitted = <<input>>

\* a run whose last chunk is shorter than min, after a chunk of full size
C2_Witness ==
    /\ ValidBounds /\ Len(emitted) >= 2 /\ chunker.mem = <<>>
    /\ Len(emitted[Len(emitted)]) < chunker.min
    /\ Len(emitted[1]) > chunker.min /\ Len(emitted[1]) < chunker.max

\* C9: what a call of next() returns and leaves behind is what the first call
\* on a freshly constructed Chunker over the remaining bytes, with the same
\* bounds, returns and leaves behind: the hasher state left by earlier chunks
\* has no influence.
C9_Restartable ==
    [][LET fresh == Chunker_next(Chunker_new(chunker.mem, chunker.min, chunker.max))
       IN  ret' = fresh.ret /\ chunker'.mem = fresh.self.mem]_vars

\* a chunk was cut by the scan with a hasher that had hashed seven bytes or
\* more of an earlier chunk, and more input remains
C9_Witness ==
    /\ Len(emitted) >= 2 /\ Len(emitted[1]) >= 6 /\ ret.some /\ chunker.mem # <<>>
    /\ Len(emitted[2]) >= chunker.min /\ Len(emitted[2]) < chunker.max

\* C10: under 0 < min <= max, a call that returns a chunk shrinks the remaining
\* view; a call made after more than Len(input) calls returns None; when a call
\* has returned None the remaining view is empty and the next call returns None.
C10_Terminates ==
    /\ [](ValidBounds =>
            /\ calls > Len(input) => ~ret.some
            /\ (calls >= 1 /\ ~ret.some) => chunker.mem = <<>>)
    /\ [][ValidBounds =>
            /\ ret'.some => Len(chunker'.mem) < Len(chunker.mem)
            /\ (calls >= 1 /\ ~ret.some) => ~ret'.some]_vars

\* None was returned twice in a row after a run of several chunks
C10_Witness ==
    ValidBounds /\ Len(emitted) >= 2 /\ calls >= Len(emitted) + 2 /\ ~ret.some

\* ------------------------------------------------------------------------
\* properties of the RollingHash
\* ------------------------------------------------------------------------

\* bytes left-padded with zero bytes to the length of the window
ZeroPad(bytes) == Rep(0, WINDOW_SIZE - Len(bytes)) \o bytes

\* the polynomial over GF(2) whose coefficients are the bits of bytes, the
\* first byte the most significant: the set of its exponents
Poly(bytes) ==
    UNION {{BITS_PER_BYTE * (Len(bytes) - j) + i : i \in BitsOf(bytes[j])} : j \in 1..Len(bytes)}

\* one step of the long division by P = x^64 + x^4 + x^3 + x + 1: a term of
\* degree d >= 64 of s is cancelled by adding x^(d - 64) * P
Cancel(s, d) ==
    IF d \in s THEN {i \in 0..127 : (i \in s) # (i \in {d, d - 60, d - 61, d - 63, d - 64})}
    ELSE s

\* the long division: the terms of degree d down to e are cancelled, the
\* highest first
Reduce[s \in SUBSET (0..127), d \in 63..127, e \in 64..128] ==
    IF d < e THEN s
    ELSE IF d = e THEN Cancel(s, d)
    ELSE Reduce[Reduce[s, d, (d + e) \div 2 + 1], (d + e) \div 2, e]

\* the Rabin fingerprint of at most WINDOW_SIZE bytes
Fingerprint(bytes) == Reduce[Poly(bytes), 127, 64]

\* C3: once WINDOW_SIZE bytes or more have been given since new() or reset(),
\* in any split into hash_byte and hash_bytes calls, hash() is what a new
\* RollingHash returns after hash_bytes of the last WINDOW_SIZE of them alone.
C3_RollingEquivalence ==
    Len(given) >= WINDOW_SIZE => hash(rolling) = hash(hash_bytes(new, LastWindow(given)))

\* a hasher seeded by hash_bytes was rolled on by hash_byte, and the window
\* has moved past its first bytes
C3_Witness ==
    /\ Len(given) > WINDOW_SIZE + 1 /\ lastop = "hash_byte"
    /\ given[1] # 0 /\ hash(rolling) # {}

\* C4: after k hash_byte calls since new() or the last reset, hash() is the
\* polynomial of the last min(k, 16) bytes modulo x^64 + x^4 + x^3 + x + 1.
C4_Fingerprint ==
    hash(rolling) = Fingerprint(LastWindow(sent))

\* more than a window of bytes went through hash_byte and the hash has a bit
\* in its top byte
C4_Witness ==
    /\ Len(sent) > WINDOW_SIZE /\ hash(rolling) \cap 56..63 # {}
    /\ \E j \in 1..Len(sent) : sent[j] >= 128

\* C5: while fewer than WINDOW_SIZE bytes have been given since new() or
\* reset(), hash() is what a new RollingHash returns after hash_bytes of those
\* bytes left-padded with zero bytes to WINDOW_SIZE bytes.
C5_ZeroPadded ==
    Len(given) < WINDOW_SIZE => hash(rolling) = hash(hash_bytes(new, ZeroPad(given)))

\* a short buffer was hashed by hash_bytes after a reset
C5_Witness ==
    /\ Len(given) = WINDOW_SIZE - 1 /\ lastop = "hash_bytes"
    /\ rolling.next # twin.next /\ hash(rolling) \cap 56..63 # {}

\* C6: a RollingHash that was reset and one constructed anew at that point
\* return the same hash() after the same calls.
C6_ResetIsNew ==
    hash(twin) = hash(rolling)

\* reset() left next off zero and a window or more of bytes came after it
C6_Witness ==
    /\ rolling.next # twin.next /\ Len(given) > WINDOW_SIZE /\ lastop = "hash_bytes"
    /\ hash(rolling) # {}

\* C7: a RollingHash given its buffers through hash_bytes and one given the
\* same bytes one at a time through hash_byte return the same hash().
C7_ShortcutIsPure ==
    hash(bytewise) = hash(rolling)

\* hash_bytes took its shortcut on a hasher that had bytes in its window,
\* and a hash_byte call followed
C7_Witness ==
    /\ rolling.next # bytewise.next /\ lastop = "hash_byte"
    /\ Len(given) > TWICE_WINDOW_SIZE + WINDOW_SIZE

\* the offset where the k-th of chunks ends
RECURSIVE EndOf(_, _)
EndOf(chunks, k) == IF k = 0 THEN 0 ELSE EndOf(chunks, k - 1) + Len(chunks[k])

\* the cut positions: the offsets where the chunks end
Cuts(chunks) == {EndOf(chunks, k) : k \in 1..Len(chunks)}

\* the first offset where the two buffers differ
EditOffset ==
    CHOOSE k \in 0..Len(input) :
        /\ k <= Len(input2)
        /\ SubSeq(input, 1, k) = SubSeq(input2, 1, k)
        /\ (k < Len(input) /\ k < Len(input2)) => input[k + 1] # input2[k + 1]

\* both buffers have been chunked to their ends
BothDone == input # <<>> /\ chunker.mem = <<>> /\ chunker2.mem = <<>>

\* C8: under 0 < min <= max, when two buffers that agree below offset p are
\* chunked with the same bounds, every position up to p - max - WINDOW_SIZE
\* is a cut of the one exactly if it is a cut of the other.
C8_EditLocality ==
    (ValidBounds /\ BothDone) =>
        \A q \in 1..(EditOffset - chunker.max - WINDOW_SIZE) :
            q \in Cuts(emitted) <=> q \in Cuts(emitted2)

\* the edit has changed the cuts, and below the threshold there are both
\* cuts and positions that are no cuts
C8_Witness ==
    /\ ValidBounds /\ BothDone
    /\ Cuts(emitted) # Cuts(emitted2)
    /\ \E q \in 1..(EditOffset - chunker.max - WINDOW_SIZE) : q \in Cuts(emitted)
    /\ \E q \in 1..(EditOffset - chunker.max - WINDOW_SIZE) : q \notin Cuts(emitted)

\* ------------------------------------------------------------------------
\* properties of the cuts
\* ------------------------------------------------------------------------

\* every byte of bytes is zero
AllZero(bytes) == \A j \in 1..Len(bytes) : bytes[j] = 0

\* what the loop of the next call of next() finds, when mem has min bytes
NextScan ==
    scan(hash_bytes(reset(chunker.hasher), Slice(chunker.mem, 0, chunker.min)),
         chunker.mem, chunker.min, chunker.max, 0)

\* C11: under 0 < min <= max and an input of zero bytes only, the hash is 0
\* after every byte fed, the loop finds no primary and no secondary boundary,
\* and the chunks are Len(input) \div max chunks of max bytes followed, when
\* max does not divide Len(input), by one chunk of the remaining bytes.
C11_ZeroBuffer ==
    (ValidBounds /\ AllZero(input)) =>
        /\ hash(chunker.hasher) = {}
        /\ \A k \in 0..Len(chunker.mem) : hash(hash_each(new, Slice(chunker.mem, 0, k))) = {}
        /\ Len(chunker.mem) >= chunker.min => (~NextScan.primary /\ NextScan.secondary = 0)
        /\ \A j \in 1..Len(emitted) :
              Len(emitted[j]) = IF j * chunker.max <= Len(input) THEN chunker.max
                                ELSE Len(input) % chunker.max
        /\ (chunker.mem = <<>> /\ calls >= 1) =>
              Len(emitted) = (Len(input) \div chunker.max)
                             + (IF Len(input) % chunker.max = 0 THEN 0 ELSE 1)

\* an input of zero bytes was cut into chunks of max bytes and a shorter last one
C11_Witness ==
    /\ ValidBounds /\ AllZero(input) /\ chunker.mem = <<>> /\ Len(emitted) >= 3
    /\ Len(input) % chunker.max # 0 /\ chunker.min < chunker.max

\* the smaller of two numbers
Least(a, b) == IF a < b THEN a ELSE b

\* the hash of a new RollingHash after the bytes of mem up to index i, fed
\* one at a time
HashAt(mem, i) == hash(hash_each(new, Slice(mem, 0, i + 1)))

\* the indices the loop of next() visits on self when it finds no primary
\* boundary: min <= i < min(max, len)
Scanned(self) == self.min..(Least(self.max, Len(self.mem)) - 1)

\* the visited indices where the hash ends in eleven 1 bits
Primaries(self) == {i \in Scanned(self) : matches(HashAt(self.mem, i), PRIMARY_BITMASK)}

\* the visited indices where the hash ends in ten 1 bits and not in eleven
Secondaries(self) ==
    {i \in Scanned(self) : /\ matches(HashAt(self.mem, i), SECONDARY_BITMASK)
                           /\ ~matches(HashAt(self.mem, i), PRIMARY_BITMASK)}

\* C12 as claimed: under 0 < min <= max, a call that returns a chunk of
\* exactly min bytes found neither a primary nor a secondary boundary at
\* loop index min.
C12_NoCutAtMin ==
    [][(ValidBounds /\ Len(chunker.mem) >= chunker.min
          /\ ret'.some /\ Len(ret'.chunk) = chunker.min)
        => (chunker.min \notin Primaries(chunker) /\ chunker.min \notin Secondaries(chunker))]_vars

\* C12 as amended: under 0 < min <= max and with min bytes or more remaining,
\* a primary boundary at the first loop index, i = min, makes the call return
\* a chunk of exactly min bytes; and a chunk of exactly min bytes comes from
\* a primary boundary at i = min, or from a secondary boundary at i = min
\* that is the only one, or from a scan without boundaries whose cut
\* min(max, len) is min.
C12_CutAtMin ==
    [][(ValidBounds /\ Len(chunker.mem) >= chunker.min) =>
          /\ chunker.min \in Primaries(chunker) => (ret'.some /\ Len(ret'.chunk) = chunker.min)
          /\ (ret'.some /\ Len(ret'.chunk) = chunker.min) =>
                \/ chunker.min \in Primaries(chunker)
                \/ Primaries(chunker) = {} /\ Secondaries(chunker) = {chunker.min}
                \/ /\ Primaries(chunker) = {} /\ Secondaries(chunker) = {}
                   /\ Least(chunker.max, Len(chunker.mem)) = chunker.min]_vars

\* the first chunk has exactly min bytes because the hash matched the
\* primary mask at loop index min, with max above min
C12_Witness ==
    /\ ValidBounds /\ chunker.min < chunker.max /\ Len(emitted) >= 1
    /\ Len(emitted[1]) = chunker.min
    /\ chunker.min \in Primaries(Chunker_new(input, chunker.min, chunker.max))

\* C13 as claimed: next() runs only on a Chunker with 0 < min <= max, because
\* Chunker::new lets no other Chunker come into being.
C13_BoundsValidated == calls >= 1 => ValidBounds

\* C14: for every buffer and every pair of bounds given to Chunker::new, the
\* next call of next() slices mem[0..min] only with min <= len, reads mem[i]
\* only with i < len and calls pop_front_chunk(n) only with n <= len; the
\* hasher's next is below 16, and the values hash_byte indexes its tables
\* with are below 256.
C14_NoPanic ==
    /\ ~Chunker_next(chunker).panic
    /\ (Len(chunker.mem) > 0 /\ Len(chunker.mem) >= chunker.min) =>
          /\ NextScan.primary => NextScan.at < Len(chunker.mem)
          /\ NextScan.secondary < Least(chunker.max, Len(chunker.mem)) \/ NextScan.secondary = 0
    /\ chunker.hasher.next \in 0..(WINDOW_SIZE - 1)
    /\ ValueOf(ShiftRight(hash(chunker.hasher), 56)) \in 0..255
    /\ chunker.hasher.queue[chunker.hasher.next] \in 0..255

\* bounds outside the contract, min above max: next() has returned chunks,
\* the last one shorter than min, and used the buffer up
C14_Witness ==
    /\ chunker.min > chunker.max /\ chunker.max > 0 /\ Len(emitted) >= 2
    /\ chunker.mem = <<>> /\ Len(emitted[Len(emitted)]) < chunker.min

Lowest(S) == CHOOSE i \in S : \A j \in S : i <= j
Highest(S) == CHOOSE i \in S : \A j \in S : i >= j

\* C17: when the remaining bytes are at least min and some scanned index i,
\* min <= i <= min(max, L) - 1, has a hash (of the bytes 0..i, the byte at i
\* fed before the test) whose low 11 bits are all set, next() returns the
\* bytes before the smallest such i, whatever secondary boundary lies before
\* it; the chunk has between min and max - 1 bytes, and the byte at i is the
\* first byte of what remains.
C17_PrimaryCut ==
    [][(Len(chunker.mem) >= chunker.min /\ Primaries(chunker) # {}) =>
          LET i == Lowest(Primaries(chunker))
          IN  /\ ret'.some
              /\ ret'.chunk = Slice(chunker.mem, 0, i)
              /\ chunker'.mem = Slice(chunker.mem, i, Len(chunker.mem))
              /\ chunker'.mem[1] = chunker.mem[i + 1]
              /\ Len(ret'.chunk) >= chunker.min /\ Len(ret'.chunk) <= chunker.max - 1]_vars

\* a first chunk was cut at a primary boundary that had a secondary boundary
\* before it
C17_Witness ==
    LET first == Chunker_new(input, chunker.min, chunker.max)
    IN  /\ Len(emitted) >= 1 /\ Primaries(first) # {}
        /\ \E j \in Secondaries(first) : j < Lowest(Primaries(first))
        /\ Len(emitted[1]) = Lowest(Primaries(first))

\* C18: when the remaining bytes are L >= 1 and at least min and no scanned
\* index is a primary match, next() returns a chunk whose length is the
\* largest scanned index whose hash has its low 10 bits all set, if there is
\* one, and min(max, L) otherwise; with min >= 1 no such index is 0, the value
\* that stands for "none found".
C18_FallbackCut ==
    [][(Len(chunker.mem) >= 1 /\ Len(chunker.mem) >= chunker.min /\ Primaries(chunker) = {}) =>
          /\ ret'.some
          /\ Len(ret'.chunk) = IF Secondaries(chunker) # {} THEN Highest(Secondaries(chunker))
                               ELSE Least(chunker.max, Len(chunker.mem))
          /\ ret'.chunk \o chunker'.mem = chunker.mem
          /\ chunker.min >= 1 => 0 \notin Secondaries(chunker)]_vars

\* a first chunk was cut at the later of two secondary boundaries
C18_Witness ==
    LET first == Chunker_new(input, chunker.min, chunker.max)
    IN  /\ Len(emitted) >= 1 /\ Primaries(first) = {}
        /\ \E j, k \in Secondaries(first) : j < k /\ Len(emitted[1]) = k

\* the queue of a RollingHash read circularly from index next
Window(self) == [j \in 1..WINDOW_SIZE |-> self.queue[(self.next + j - 1) % WINDOW_SIZE]]

\* the byte fed WINDOW_SIZE bytes before the next one, 0 when there is none
Evicted(bytes) ==
    IF Len(bytes) >= WINDOW_SIZE THEN bytes[Len(bytes) - WINDOW_SIZE + 1] ELSE 0

\* C19: in every state of a RollingHash reached by new, reset, hash_byte and
\* hash_bytes (with and without the shortcut), next is in 0..15 and the queue
\* read circularly from next is, oldest first, the last 16 bytes fed since the
\* last reset, with zeros in front when fewer were fed; queue[next] is the
\* byte fed 16 hash_byte calls earlier, or 0 when fewer than 16 were fed.
C19_QueueIsWindow ==
    \A self \in {rolling, twin, bytewise} :
        /\ self.next \in 0..(WINDOW_SIZE - 1)
        /\ Window(self) = ZeroPad(LastWindow(given))
        /\ Window(self) = ZeroPad(LastWindow(sent))
        /\ self.queue[self.next] = Evicted(given)
        /\ self.queue[self.next] = Evicted(sent)

\* more than a window of bytes was fed, the last by hash_byte, next is in
\* the middle of the queue and the byte to evict is not 0
C19_Witness ==
    /\ Len(given) > WINDOW_SIZE /\ lastop = "hash_byte"
    /\ rolling.next # 0 /\ rolling.queue[rolling.next] # 0
    /\ rolling.queue[rolling.next] = given[Len(given) - WINDOW_SIZE + 1]

\* ------------------------------------------------------------------------
\* build.rs
\* ------------------------------------------------------------------------

build_WINDOW_SIZE == 16
build_TWICE_WINDOW_SIZE == 2 * build_WINDOW_SIZE
build_WINDOW_MASK == build_WINDOW_SIZE - 1
build_BITS_PER_BYTE == 8

build_DEFAULT_IRREDUCIBLE_POLYNOMIAL_64 == {0, 1, 3, 4}

\* one iteration of the loop of build.rs's shift_left_n_bits_with_mod_64
build_shift_step(number) ==
    LET needs_mod == 63 \in number
        shifted == ShiftLeft(number, 1)
    IN  IF needs_mod THEN XOR(shifted, build_DEFAULT_IRREDUCIBLE_POLYNOMIAL_64)
        ELSE shifted

\* its loop `for _ in 0..n`, split as shift_loop is
build_shift_loop[number \in SUBSET (0..63), k \in 0..255] ==
    IF k = 0 THEN number
    ELSE IF k = 1 THEN build_shift_step(number)
    ELSE build_shift_loop[build_shift_loop[number, k \div 2], k - (k \div 2)]

build_shift_left_n_bits_with_mod_64(number, n) == build_shift_loop[number, n]

\* BITS_PER_BYTE * WINDOW_SIZE as u8 in build.rs: the product is taken in u8
build_pop_shift == (build_BITS_PER_BYTE * (build_WINDOW_SIZE % 256)) % 256

\* the value of the i-th line of the push table
build_push_entry(i) ==
    build_shift_left_n_bits_with_mod_64(ShiftLeft(BitsOf(i), 56), build_BITS_PER_BYTE)

\* build_pop_entry, were the shift one byte short of the window
build_pop_entry_short(i) ==
    build_shift_left_n_bits_with_mod_64(BitsOf(i), build_BITS_PER_BYTE * (build_WINDOW_SIZE - 1))

\* the value of the i-th line of the pop table
build_pop_entry(i) == build_shift_left_n_bits_with_mod_64(BitsOf(i), build_pop_shift)

\* numbers as sequences of 16-bit limbs, the least significant first
Base == 2 ^ 16

SumBits[S \in SUBSET (0..15)] ==
    IF S = {} THEN 0
    ELSE LET i == CHOOSE j \in S : TRUE
         IN  2 ^ i + SumBits[S \ {i}]

\* the limbs of a u64
LimbsOf(v) == [j \in 1..4 |-> SumBits[{i \in 0..15 : i + 16 * (j - 1) \in v}]]

\* the limbs of a usize below 2^16
LimbsOfSmall(n) == <<n, 0, 0, 0>>

\* the bits of a number given by its limbs
BitsOfLimbs(limbs) ==
    {i \in 0..(16 * Len(limbs) - 1) : Bit(limbs[(i \div 16) + 1], i % 16) = 1}

\* limbs * m + c: the limbs of the result and the carry out of the last one
RECURSIVE MulAdd(_, _, _)
MulAdd(limbs, m, c) ==
    IF limbs = <<>> THEN [limbs |-> <<>>, carry |-> c]
    ELSE LET t == Head(limbs) * m + c
             rest == MulAdd(Tail(limbs), m, t \div Base)
         IN  [limbs |-> <<t % Base>> \o rest.limbs, carry |-> rest.carry]

\* limbs divided by d, the remainder r of the limbs above them carried in
RECURSIVE DivSmall(_, _, _)
DivSmall(limbs, d, r) ==
    IF limbs = <<>> THEN [limbs |-> <<>>, rem |-> r]
    ELSE LET n == Len(limbs)
             t == r * Base + limbs[n]
             rest == DivSmall(SubSeq(limbs, 1, n - 1), d, t % d)
         IN  [limbs |-> Append(rest.limbs, t \div d), rem |-> rest.rem]

IsZero(limbs) == \A j \in 1..Len(limbs) : limbs[j] = 0

RECURSIVE DigitsOf(_)
DigitsOf(limbs) ==
    IF IsZero(limbs) THEN <<>>
    ELSE LET qr == DivSmall(limbs, 10, 0)
         IN  Append(DigitsOf(qr.limbs), qr.rem)

\* what `{}` writes for an integer: its decimal digits, the first not 0 unless
\* the number is 0
Display(limbs) == IF IsZero(limbs) THEN <<0>> ELSE DigitsOf(limbs)

\* the number a run of decimal digits denotes, in as many limbs as wide has
RECURSIVE DecimalValue(_, _)
DecimalValue(digits, wide) ==
    IF digits = <<>> THEN [limbs |-> wide, carry |-> 0]
    ELSE LET n == Len(digits)
             front == DecimalValue(SubSeq(digits, 1, n - 1), wide)
             last == MulAdd(front.limbs, 10, digits[n])
         IN  [limbs |-> last.limbs,
              carry |-> IF front.carry # 0 \/ last.carry # 0 THEN 1 ELSE 0]

\* the u64 a decimal literal of the written file denotes
Literal(digits) == BitsOfLimbs(DecimalValue(digits, <<0, 0, 0, 0>>).limbs)

Line(item, digits) == [item |-> item, number |-> digits]

\* main of build.rs: the three consts and the empty line
BuildConsts ==
    /\ autogen = <<>>
    /\ autogen' = <<Line("const WINDOW_SIZE: usize", Display(LimbsOfSmall(build_WINDOW_SIZE))),
                    Line("const TWICE_WINDOW_SIZE: usize",
                         Display(LimbsOfSmall(build_TWICE_WINDOW_SIZE))),
                    Line("const WINDOW_MASK: usize", Display(LimbsOfSmall(build_WINDOW_MASK))),
                    Line("", <<>>)>>
    /\ UNCHANGED <<cvars, hvars, evars, pvars>>

\* main: the opening line of the push table
BuildPushOpen ==
    /\ Len(autogen) = 4
    /\ autogen' = Append(autogen, Line("static ROLLING_HASH_PUSH_TABLE: [u64; 256] = [", <<>>))
    /\ UNCHANGED <<cvars, hvars, evars, pvars>>

\* main: one iteration of the loop over the push table
BuildPushEntry ==
    /\ Len(autogen) \in 5..(5 + 255)
    /\ LET i == Len(autogen) - 5
       IN  autogen' = Append(autogen, Line("push", Display(LimbsOf(build_push_entry(i)))))
    /\ UNCHANGED <<cvars, hvars, evars, pvars>>

\* main: the closing line of the push table and the opening line of the pop table
BuildPopOpen ==
    /\ Len(autogen) = 5 + 256
    /\ autogen' = autogen \o <<Line("];", <<>>),
                               Line("static ROLLING_HASH_POP_TABLE: [u64; 256] = [", <<>>)>>
    /\ UNCHANGED <<cvars, hvars, evars, pvars>>

\* main: one iteration of the loop over the pop table
BuildPopEntry ==
    /\ Len(autogen) \in (7 + 256)..(7 + 256 + 255)
    /\ LET i == Len(autogen) - (7 + 256)
       IN  autogen' = Append(autogen, Line("pop", Display(LimbsOf(build_pop_entry(i)))))
    /\ UNCHANGED <<cvars, hvars, evars, pvars>>

\* main: the closing line of the pop table
BuildPopClose ==
    /\ Len(autogen) = 7 + 256 + 256
    /\ autogen' = Append(autogen, Line("];", <<>>))
    /\ UNCHANGED <<cvars, hvars, evars, pvars>>

InitBuild ==
    /\ ChunkerIdle
    /\ EditIdle
    /\ HashIdle
    /\ BuildIdle
    /\ ParseIdle

NextBuild ==
    \/ BuildConsts
    \/ BuildPushOpen
    \/ BuildPushEntry
    \/ BuildPopOpen
    \/ BuildPopEntry
    \/ BuildPopClose

SpecBuild == InitBuild /\ [][NextBuild]_vars

\* the numbers of the lines written so far for the table named item
Written(item) ==
    LET at == {k \in 1..Len(autogen) : autogen[k].item = item}
    IN  [i \in 0..(Cardinality(at) - 1) |-> autogen[Lowest(at) + i].number]

\* the line written last is an entry that denotes the entry of the table
\* RollingHash::new builds at the same index
LastLineAgrees ==
    autogen # <<>> =>
        LET last == autogen[Len(autogen)]
        IN  /\ last.item = "push" =>
                Literal(last.number) = push[Cardinality(DOMAIN Written("push")) - 1]
            /\ last.item = "pop" =>
                Literal(last.number) = pop[Cardinality(DOMAIN Written("pop")) - 1]

\* C15: build.rs and RollingHash::new use the same polynomial 0x1B and the
\* same WINDOW_SIZE = 16, TWICE_WINDOW_SIZE = 32 and WINDOW_MASK = 15, which
\* are also what build.rs writes; the shift count 8 * 16 is 128 in u8 in both;
\* every table entry build.rs writes is the decimal form of the entry
\* RollingHash::new computes, PUSH[b] = shl_mod(b << 56, 8) and
\* POP[b] = shl_mod(b, 128), and once the file is complete it has all 256
\* entries of both tables; PUSH[0] = POP[0] = 0 in both.
C15_TablesAgree ==
    /\ build_DEFAULT_IRREDUCIBLE_POLYNOMIAL_64 = DEFAULT_IRREDUCIBLE_POLYNOMIAL_64
    /\ DEFAULT_IRREDUCIBLE_POLYNOMIAL_64 = BitsOf(27)
    /\ build_WINDOW_SIZE = WINDOW_SIZE /\ WINDOW_SIZE = 16
    /\ build_TWICE_WINDOW_SIZE = TWICE_WINDOW_SIZE /\ TWICE_WINDOW_SIZE = 32
    /\ build_WINDOW_MASK = WINDOW_MASK /\ WINDOW_MASK = 15
    /\ build_BITS_PER_BYTE * build_WINDOW_SIZE < 256 /\ build_pop_shift = 128
    /\ BITS_PER_BYTE * WINDOW_SIZE < 256 /\ pop_shift = 128
    /\ push[0] = {} /\ pop[0] = {}
    /\ autogen # <<>> =>
          /\ Literal(autogen[1].number) = BitsOf(WINDOW_SIZE)
          /\ Literal(autogen[2].number) = BitsOf(TWICE_WINDOW_SIZE)
          /\ Literal(autogen[3].number) = BitsOf(WINDOW_MASK)
    /\ LastLineAgrees
    /\ Len(autogen) = 8 + 256 + 256 =>
          /\ DOMAIN Written("push") = 0..255 /\ DOMAIN Written("pop") = 0..255
          /\ Written("push")[0] = <<0>> /\ Written("pop")[0] = <<0>>
          /\ \A b \in 0..255 :
                /\ Literal(Written("push")[b]) = push[b]
                /\ Literal(Written("pop")[b]) = pop[b]
                /\ push[b] = shift_left_n_bits_with_mod_64(ShiftLeft(BitsOf(b), 56), 8)
                /\ pop[b] = shift_left_n_bits_with_mod_64(BitsOf(b), 128)

\* the file is complete and the last entry of the pop table is written as
\* 50115, which is 255 times x^8 + x^6 + x^2 + 1 over GF(2)
C15_Witness ==
    /\ Len(autogen) = 8 + 256 + 256
    /\ Written("pop")[255] = <<5, 0, 1, 1, 5>>
    /\ pop[255] = {0, 1, 6, 7, 8, 9, 14, 15}

\* ------------------------------------------------------------------------
\* test_chunks/src/main.rs: parse_memory_usage
\* ------------------------------------------------------------------------

\* strings are sequences of characters
DigitChars == <<"0", "1", "2", "3", "4", "5", "6", "7", "8", "9">>
Digit == {DigitChars[k] : k \in 1..10}
DigitValue(c) == (CHOOSE k \in 1..10 : DigitChars[k] = c) - 1
SuffixClass == {"b", "B", "k", "K", "m", "M", "g", "G"}

\* Regex::captures for (\d+)([bBkKmMgG]?): the leftmost longest run of digits
\* and the suffix character right after it, if there is one
captures(mem_str) ==
    LET starts == {k \in 1..Len(mem_str) : mem_str[k] \in Digit}
    IN  IF starts = {} THEN [some |-> FALSE]
        ELSE LET from == Lowest(starts)
                 to == Highest({e \in from..Len(mem_str) :
                                   \A k \in from..e : mem_str[k] \in Digit})
             IN  [some |-> TRUE,
                  g1 |-> SubSeq(mem_str, from, to),
                  g2 |-> IF to < Len(mem_str) /\ mem_str[to + 1] \in SuffixClass
                         THEN <<mem_str[to + 1]>> ELSE <<>>]

\* str::parse::<u64> of a run of digits
parse_u64(digits) ==
    LET v == DecimalValue([k \in 1..Len(digits) |-> DigitValue(digits[k])], <<0, 0, 0, 0>>)
    IN  IF v.carry # 0 THEN [ok |-> FALSE] ELSE [ok |-> TRUE, limbs |-> v.limbs]

\* the number of factors 1024 of a match arm
arm(suffix) ==
    IF suffix \in {<<"G">>, <<"g">>} THEN 3
    ELSE IF suffix \in {<<"M">>, <<"m">>} THEN 2
    ELSE IF suffix \in {<<"K">>, <<"k">>} THEN 1
    ELSE 0

\* bytes * 1024 * ... in u64, k factors from the left; with overflow checks
\* (debug builds) a product of 2^64 or more panics, without (release builds)
\* it wraps
RECURSIVE times_1024(_, _, _)
times_1024(bytes, k, checks) ==
    IF k = 0 THEN [panic |-> FALSE, limbs |-> bytes]
    ELSE LET p == MulAdd(bytes, 1024, 0)
         IN  IF p.carry # 0 /\ checks THEN [panic |-> TRUE, limbs |-> p.limbs]
             ELSE times_1024(p.limbs, k - 1, checks)

\* parse_memory_usage, built with or without overflow checks
parse_memory_usage(mem_str, checks) ==
    LET caps == captures(mem_str)
    IN  IF ~caps.some THEN [called |-> TRUE, panic |-> TRUE]
        ELSE LET bytes == parse_u64(caps.g1)
             IN  IF ~bytes.ok THEN [called |-> TRUE, panic |-> TRUE]
                 ELSE LET r == times_1024(bytes.limbs, arm(caps.g2), checks)
                      IN  IF r.panic THEN [called |-> TRUE, panic |-> TRUE]
                          ELSE [called |-> TRUE, panic |-> FALSE,
                                value |-> BitsOfLimbs(r.limbs)]

MaxDigits == 2

Chars(digits) == [k \in 1..Len(digits) |-> DigitChars[digits[k] + 1]]

\* short numbers, the number of the unit test, and numbers around 2^64 and
\* around 2^64 divided by 1024, 1024^2 and 1024^3
Numbers ==
    {Chars(t) : t \in UNION {[1..l -> {0, 1, 9}] : l \in 1..MaxDigits}}
    \cup {Chars(t) : t \in {<<1, 0, 0>>,
                            <<1, 7, 1, 7, 9, 8, 6, 9, 1, 8, 3>>,
                            <<1, 7, 1, 7, 9, 8, 6, 9, 1, 8, 4>>,
                            <<1, 7, 5, 9, 2, 1, 8, 6, 0, 4, 4, 4, 1, 5>>,
                            <<1, 7, 5, 9, 2, 1, 8, 6, 0, 4, 4, 4, 1, 6>>,
                            <<1, 8, 0, 1, 4, 3, 9, 8, 5, 0, 9, 4, 8, 1, 9, 8, 3>>,
                            <<1, 8, 0, 1, 4, 3, 9, 8, 5, 0, 9, 4, 8, 1, 9, 8, 4>>,
                            <<1, 8, 4, 4, 6, 7, 4, 4, 0, 7, 3, 7, 0, 9, 5, 5, 1, 6, 1, 5>>,
                            <<1, 8, 4, 4, 6, 7, 4, 4, 0, 7, 3, 7, 0, 9, 5, 5, 1, 6, 1, 6>>}}

Suffixes == {<<>>} \cup {<<c>> : c \in SuffixClass}

\* a decimal number followed by an optional single suffix
WellFormed == {n \o x : n \in Numbers, x \in Suffixes}

\* other strings a command line can hold
Others == {<<>>, <<"k">>, <<"x", "1", "2", "k">>, <<"1", "2", "k", "b">>, <<"1", "2", "x">>}

InitParse ==
    /\ ChunkerIdle
    /\ EditIdle
    /\ HashIdle
    /\ BuildIdle
    /\ arg \in WellFormed \cup Others
    /\ usage = [called |-> FALSE]

\* the call parse_memory_usage(arg) of main, in a build with or without
\* overflow checks
ParseMemoryUsage ==
    /\ ~usage.called
    /\ \E checks \in BOOLEAN : usage' = parse_memory_usage(arg, checks)
    /\ UNCHANGED <<cvars, hvars, evars, bvars, arg>>

NextParse == ParseMemoryUsage

SpecParse == InitParse /\ [][NextParse]_vars

\* the digits and the suffix of a well-formed string
NumberOf(str) == SelectSeq(str, LAMBDA c : c \in Digit)
SuffixOf(str) == SelectSeq(str, LAMBDA c : c \notin Digit)

\* the product of the number and the factor of the suffix, in 128 bits
Product(str) ==
    LET n == DecimalValue([k \in 1..Len(NumberOf(str)) |-> DigitValue(NumberOf(str)[k])],
                          <<0, 0, 0, 0, 0, 0, 0, 0>>).limbs
        k == IF SuffixOf(str) \in {<<"g">>, <<"G">>} THEN 30
             ELSE IF SuffixOf(str) \in {<<"m">>, <<"M">>} THEN 20
             ELSE IF SuffixOf(str) \in {<<"k">>, <<"K">>} THEN 10
             ELSE 0
    IN  {i + k : i \in BitsOfLimbs(n)}

\* C16 as claimed: parse_memory_usage of a decimal number n followed by an
\* optional single suffix returns n for no suffix, b or B, n * 1024 for k or
\* K, n * 1024^2 for m or M and n * 1024^3 for g or G.
C16_ParseMemoryUsage ==
    (usage.called /\ arg \in WellFormed) =>
        /\ ~usage.panic
        /\ usage.value = Product(arg)
====
